---- MODULE Spec2Model ----
(***************************************************************************)
(* A model of JSONStorage (src/json_redis.py): a key-value store kept in   *)
(* a Python dict and rewritten to a JSON snapshot file after each          *)
(* mutating call.                                                          *)
(*                                                                         *)
(* Python values are tagged records [t |-> <type>, v |-> <payload>]:       *)
(*   int   an integer               str    a sequence of character codes   *)
(*   list  a sequence of values     tuple  a sequence of values            *)
(*   set   a set of values          dict   a function from str payloads    *)
(* A key with a TTL is what the code stores for it: a dict with the two    *)
(* entries 'value' and 'expires_at'.                                       *)
(***************************************************************************)
EXTENDS Integers, Sequences, FiniteSets, TLC

VARIABLES
    storage,    \* self.storage: a function from the keys present to values
    file,       \* the content of the snapshot file self.filename
    now,        \* the clock read by time.time()
    op,         \* the last event of the single caller: a call's name, key and
                \* outcome, or "tick" once time has passed since
    pc,         \* per thread: the line of incrby or _save_storage it is at
    lock,       \* self.lock: the owner of the RLock and its recursion depth
    tmp,        \* per thread: the value += has read from storage[key]
    exc,        \* per thread: the exception that is propagating, if any
    ret,        \* per thread: the outcomes of its calls, in order
    before,     \* the store as it was when the call that holds the lock began
    good        \* the last snapshot a thread's json.dump wrote whole

vars == <<storage, file, now, op, pc, lock, tmp, exc, ret, before, good>>
threadVars == <<pc, lock, tmp, exc, ret, before, good>>

---------------------------------------------------------------------------
\* Bounds of the model.

\* The clock takes the values 0..MaxTime.
MaxTime == 2
\* Integers stored by incrby, decrby and hincrby stay within -MaxInt..MaxInt.
MaxInt == 1
\* Each thread calls incrby at most MaxCalls times.
MaxCalls == 1
\* The store holds at most MaxWeight keys and scalars together (a string
\* counts for its length, a (score, member) pair for one, an expiry for one).
MaxWeight == 3
\* The same count for the stores of the calls that give and read expiries.
MaxWeightTtl == 6

---------------------------------------------------------------------------
\* Python values.

PyInt(n) == [t |-> "int", v |-> n]
PyStr(s) == [t |-> "str", v |-> s]
PyList(q) == [t |-> "list", v |-> q]
PyTuple(q) == [t |-> "tuple", v |-> q]
PySet(S) == [t |-> "set", v |-> S]
PyDict(f) == [t |-> "dict", v |-> f]
PyBool(b) == [t |-> "bool", v |-> b]
None == [t |-> "none", v |-> 0]
\* An exception that propagates to the caller.
Raised(e) == [t |-> "raise", v |-> e]
IsRaised(r) == r.t = "raise"

\* Strings, as character codes (a = 1, b = 2, ..., z = 26, _ = 27).
A == <<1>>
B == <<2>>
F == <<6>>
VALUE == <<22, 1, 12, 21, 5>>
EXPIRES_AT == <<5, 24, 16, 9, 18, 5, 19, 27, 1, 20>>

EmptyDict == [f \in {} |-> None]
\* {'value': value, 'expires_at': at}
Wrapped(value, at) == [f \in {VALUE, EXPIRES_AT} |-> IF f = VALUE THEN value ELSE PyInt(at)]

\* dict's d[k] = x, del d[k]
Put(d, k, x) == [j \in DOMAIN d \cup {k} |-> IF j = k THEN x ELSE d[j]]
Del(d, k) == [j \in DOMAIN d \ {k} |-> d[j]]

Range(q) == {q[i] : i \in DOMAIN q}
RemoveAt(q, i) == SubSeq(q, 1, i - 1) \o SubSeq(q, i + 1, Len(q))
\* list.remove(x): removes the first element equal to x
RemoveFirst(q, x) == RemoveAt(q, CHOOSE i \in 1..Len(q) : q[i] = x /\ \A j \in 1..(i - 1) : q[j] # x)
\* x in s, for a str s: x is a substring of s
IsSubstring(x, s) == \E i \in 0..(Len(s) - Len(x)) : SubSeq(s, i + 1, i + Len(x)) = x

Abs(n) == IF n < 0 THEN -n ELSE n

---------------------------------------------------------------------------
\* The inputs of the calls.

Keys == {"a", "b"}
\* members of sets and elements of lists
Elems == {PyInt(1), PyStr(A)}
\* scores and members of zadd
Scores == {1, 2}
Members == {PyStr(A), PyStr(B)}
\* fields of the hash calls
Fields == {F}
\* ttl of setex and expire, increment of incrby, decrby and hincrby
Ttls == {1}
Increments == {1}
\* index of lindex, start and end of lrange and zrange
Indexes == {0, -1}
Starts == {0}
Ends == {0, -1}
\* the values of set and setex: one of each variant, and a hash whose fields
\* are named 'value' and 'expires_at'
HashVE == PyDict([f \in {VALUE, EXPIRES_AT} |-> IF f = VALUE THEN PyStr(A) ELSE PyInt(1)])
Values == {PyInt(1), PyStr(A), PyList(<<PyStr(A)>>), PySet({PyInt(1)}),
           PyList(<<PyTuple(<<PyInt(1), PyStr(A)>>)>>),
           PyDict([f \in {F} |-> PyInt(1)]), HashVE}

---------------------------------------------------------------------------
\* The size of a value, which the bounds cap.

RECURSIVE Weight(_)
RECURSIVE SumSeq(_)
RECURSIVE SumSet(_)
RECURSIVE SumDict(_, _)
\* an element of a list: a pair counts as one scalar
ElemWeight(e) == IF e.t \in {"tuple", "list"} THEN 1 ELSE Weight(e)
SumSeq(q) == IF q = <<>> THEN 0 ELSE ElemWeight(Head(q)) + SumSeq(Tail(q))
SumSet(S) == IF S = {} THEN 0 ELSE LET x == CHOOSE y \in S : TRUE IN Weight(x) + SumSet(S \ {x})
SumDict(d, D) == IF D = {} THEN 0 ELSE LET f == CHOOSE g \in D : TRUE IN Weight(d[f]) + SumDict(d, D \ {f})
Weight(x) ==
    CASE x.t = "int" -> 1
      [] x.t = "str" -> Len(x.v)
      [] x.t = "tuple" -> 1
      [] x.t = "list" -> SumSeq(x.v)
      [] x.t = "set" -> SumSet(x.v)
      [] x.t = "dict" -> SumDict(x.v, DOMAIN x.v)
      [] OTHER -> 0

RECURSIVE StoreWeight(_, _)
\* a key counts for one, and so does each scalar of its value
StoreWeight(s, D) ==
    IF D = {} THEN 0 ELSE LET k == CHOOSE j \in D : TRUE IN 1 + Weight(s[k]) + StoreWeight(s, D \ {k})

RECURSIVE IntsWithin(_)
IntsWithin(x) ==
    CASE x.t = "int" -> Abs(x.v) <= MaxInt
      [] x.t = "dict" -> \A f \in DOMAIN x.v : f = EXPIRES_AT \/ IntsWithin(x.v[f])
      [] OTHER -> TRUE

\* The stores the model explores.
Bounded(s) ==
    /\ StoreWeight(s, DOMAIN s) <= MaxWeight
    /\ \A k \in DOMAIN s : IntsWithin(s[k])

---------------------------------------------------------------------------
\* Python's < on the values a list can hold, as list.sort() uses it.

\* the first index at which two sequences differ, 0 if one is a prefix of the other
FirstDiff(x, y) ==
    LET n == IF Len(x) < Len(y) THEN Len(x) ELSE Len(y)
        D == {i \in 1..n : x[i] # y[i]}
    IN  IF D = {} THEN 0 ELSE CHOOSE i \in D : \A j \in D : i <= j

\* str < str: lexicographic
StrLess(x, y) ==
    LET i == FirstDiff(x, y) IN IF i = 0 THEN Len(x) < Len(y) ELSE x[i] < y[i]

RECURSIVE Comparable(_, _)
\* a < b does not raise TypeError
Comparable(a, b) ==
    CASE a.t = "int" /\ b.t = "int" -> TRUE
      [] a.t = "str" /\ b.t = "str" -> TRUE
      [] a.t = b.t /\ a.t \in {"tuple", "list"} ->
            LET i == FirstDiff(a.v, b.v) IN i = 0 \/ Comparable(a.v[i], b.v[i])
      [] OTHER -> FALSE

RECURSIVE Less(_, _)
\* a < b, for comparable a and b
Less(a, b) ==
    CASE a.t = "int" -> a.v < b.v
      [] a.t = "str" -> StrLess(a.v, b.v)
      [] OTHER -> LET i == FirstDiff(a.v, b.v)
                  IN  IF i = 0 THEN Len(a.v) < Len(b.v) ELSE Less(a.v[i], b.v[i])

\* list.sort() raises: two elements that cannot be compared. The values a
\* list holds fall into classes (int, str, tuple, list) that compare within
\* a class and raise across classes, and a sort of elements of two classes
\* has to compare two of different classes.
SortRaises(q) == \E i, j \in DOMAIN q : ~Comparable(q[i], q[j])

\* x inserted into the sorted q, after the elements that are not greater
Insert(x, q) ==
    LET G == {i \in 1..Len(q) : Less(x, q[i])}
        p == IF G = {} THEN Len(q) + 1 ELSE CHOOSE i \in G : \A j \in G : i <= j
    IN  SubSeq(q, 1, p - 1) \o <<x>> \o SubSeq(q, p, Len(q))

RECURSIVE Sorted(_)
\* the list after a list.sort() that does not raise (the sort is stable)
Sorted(q) == IF q = <<>> THEN <<>> ELSE Insert(q[Len(q)], Sorted(SubSeq(q, 1, Len(q) - 1)))

\* the orders a list can be left in by a list.sort() that raises ("the list
\* will likely be left in a partially modified state")
Permuted(q) ==
    {[i \in 1..Len(q) |-> q[p[i]]] : p \in {f \in [1..Len(q) -> 1..Len(q)] : Range(f) = 1..Len(q)}}

---------------------------------------------------------------------------
\* The snapshot file: json.dump of the store.

JNum(n) == [t |-> "number", v |-> n]
JStr(s) == [t |-> "string", v |-> s]
JArr(q) == [t |-> "array", v |-> q]
JObj(f) == [t |-> "object", v |-> f]

\* list(v) of a set v: its members in the order the set iterates them
SetToList(S) == CHOOSE q \in [1..Cardinality(S) -> S] : Range(q) = S

RECURSIVE Serializable(_)
\* json can encode x: a set is "not JSON serializable"
Serializable(x) ==
    CASE x.t \in {"int", "str"} -> TRUE
      [] x.t \in {"list", "tuple"} -> \A i \in DOMAIN x.v : Serializable(x.v[i])
      [] x.t = "dict" -> \A f \in DOMAIN x.v : Serializable(x.v[f])
      [] OTHER -> FALSE

RECURSIVE Encode(_)
\* the JSON text of x: a tuple is written as an array, like a list
Encode(x) ==
    CASE x.t = "int" -> JNum(x.v)
      [] x.t = "str" -> JStr(x.v)
      [] x.t \in {"list", "tuple"} -> JArr([i \in DOMAIN x.v |-> Encode(x.v[i])])
      [] x.t = "dict" -> JObj([f \in DOMAIN x.v |-> Encode(x.v[f])])

\* {k: list(v) if isinstance(v, set) else v for k, v in self.storage.items()}
Listed(s) == [k \in DOMAIN s |-> IF s[k].t = "set" THEN PyList(SetToList(s[k].v)) ELSE s[k]]

FileMissing == [t |-> "missing", v |-> {}]
\* truncated by open(filename, 'w') and holding at most a part of a snapshot
FileTruncated == [t |-> "truncated", v |-> {}]
FileJson(j) == [t |-> "json", v |-> j]
\* the file that holds the whole snapshot of the store s
Snapshot(s) == FileJson([k \in DOMAIN s |-> Encode(Listed(s)[k])])

\* what the file system does to the write of the snapshot
IoOutcomes == {"ok", "ENOSPC"}

\* _save_storage: the file it leaves and the exception it raises, if any
save_storage(s, io) ==
    IF \E k \in DOMAIN s : ~Serializable(Listed(s)[k])
    THEN [file |-> FileTruncated, exc |-> Raised("TypeError")]
    ELSE IF io = "ENOSPC"
    THEN [file |-> FileTruncated, exc |-> Raised("OSError")]
    ELSE [file |-> Snapshot(s), exc |-> None]

RECURSIVE Decode(_)
\* json.load of a JSON text: arrays become lists, objects become dicts
Decode(j) ==
    CASE j.t = "number" -> PyInt(j.v)
      [] j.t = "string" -> PyStr(j.v)
      [] j.t = "array" -> PyList([i \in DOMAIN j.v |-> Decode(j.v[i])])
      [] j.t = "object" -> PyDict([f \in DOMAIN j.v |-> Decode(j.v[f])])

\* isinstance(value, list) and all(isinstance(item, (int, str)) for item in value)
ListOfScalars(x) == x.t = "list" /\ \A i \in DOMAIN x.v : x.v[i].t \in {"int", "str"}

\* _load_storage: the store a new JSONStorage builds from the file, or the
\* exception of a file that is not a JSON text
load_storage(f) ==
    CASE f.t = "missing" -> [st |-> [k \in {} |-> None], exc |-> None]
      [] f.t = "truncated" -> [st |-> [k \in {} |-> None], exc |-> Raised("JSONDecodeError")]
      [] f.t = "json" ->
            [st |-> [k \in DOMAIN f.v |->
                        LET x == Decode(f.v[k])
                        IN  IF ListOfScalars(x) THEN PySet(Range(x.v)) ELSE x],
             exc |-> None]

---------------------------------------------------------------------------
\* The methods, as the code runs them under the lock: the store each leaves,
\* whether it goes on to _save_storage, and what it returns or raises.

\* the method reached self._save_storage() with the store st
Saved(st, res) == [st |-> st, save |-> TRUE, res |-> res]
\* the method returned or raised without reaching self._save_storage()
Kept(st, res) == [st |-> st, save |-> FALSE, res |-> res]

\* value in c raises TypeError
InRaises(x, c) == c.t = "int" \/ (c.t = "str" /\ x.t # "str")
\* value in c
In(x, c) ==
    CASE c.t = "set" -> x \in c.v
      [] c.t = "list" -> x \in Range(c.v)
      [] c.t = "dict" -> x.t = "str" /\ x.v \in DOMAIN c.v
      [] c.t = "str" -> IsSubstring(x.v, c.v)

\* isinstance(item, dict) and 'expires_at' in item
HasExpiry(item) == item.t = "dict" /\ EXPIRES_AT \in DOMAIN item.v

set_body(s, k, value) == Saved(Put(s, k, value), None)

setex_body(s, t, k, ttl, value) == Saved(Put(s, k, PyDict(Wrapped(value, t + ttl))), None)

get_body(s, t, k) ==
    IF k \notin DOMAIN s THEN Kept(s, None)
    ELSE IF HasExpiry(s[k])
    THEN IF s[k].v[EXPIRES_AT].t # "int" THEN Kept(s, Raised("TypeError"))
         ELSE IF t > s[k].v[EXPIRES_AT].v THEN Saved(Del(s, k), None)
         ELSE IF VALUE \notin DOMAIN s[k].v THEN Kept(s, Raised("KeyError"))
         ELSE Kept(s, s[k].v[VALUE])
    ELSE Kept(s, s[k])

\* delete that forgets self._save_storage()
delete_body_unsaved(s, k) == IF k \in DOMAIN s THEN Kept(Del(s, k), None) ELSE Kept(s, None)

delete_body(s, k) == IF k \in DOMAIN s THEN Saved(Del(s, k), None) ELSE Kept(s, None)

sadd_body(s, k, value) ==
    IF k \notin DOMAIN s THEN Saved(Put(s, k, PySet({value})), None)
    ELSE IF s[k].t # "set" THEN Kept(s, Raised("TypeError"))
    ELSE Saved(Put(s, k, PySet(s[k].v \cup {value})), None)

srem_body(s, k, value) ==
    IF k \notin DOMAIN s THEN Kept(s, None)
    ELSE IF InRaises(value, s[k]) THEN Kept(s, Raised("TypeError"))
    ELSE IF ~In(value, s[k]) THEN Kept(s, None)
    ELSE CASE s[k].t = "set" -> Saved(Put(s, k, PySet(s[k].v \ {value})), None)
           [] s[k].t = "list" -> Saved(Put(s, k, PyList(RemoveFirst(s[k].v, value))), None)
           [] OTHER -> Kept(s, Raised("AttributeError"))

hset_body(s, k, field, value) ==
    IF k \notin DOMAIN s THEN Saved(Put(s, k, PyDict(Put(EmptyDict, field, value))), None)
    ELSE IF s[k].t # "dict" THEN Kept(s, Raised("TypeError"))
    ELSE Saved(Put(s, k, PyDict(Put(s[k].v, field, value))), None)

hdel_body(s, k, field) ==
    IF k \notin DOMAIN s THEN Kept(s, None)
    ELSE IF InRaises(PyStr(field), s[k]) THEN Kept(s, Raised("TypeError"))
    ELSE IF ~In(PyStr(field), s[k]) THEN Kept(s, None)
    ELSE IF s[k].t # "dict" THEN Kept(s, Raised("TypeError"))
    ELSE Saved(Put(s, k, PyDict(Del(s[k].v, field))), None)

hincrby_body(s, k, field, increment) ==
    IF k \notin DOMAIN s
    THEN Saved(Put(s, k, PyDict(Put(EmptyDict, field, PyInt(increment)))), PyInt(increment))
    ELSE IF s[k].t # "dict" THEN Kept(s, Raised("TypeError"))
    ELSE LET old == IF field \in DOMAIN s[k].v THEN s[k].v[field] ELSE PyInt(0)
         IN  IF old.t # "int" THEN Kept(s, Raised("TypeError"))
             ELSE Saved(Put(s, k, PyDict(Put(s[k].v, field, PyInt(old.v + increment)))),
                        PyInt(old.v + increment))

lpush_body(s, k, value) ==
    IF k \notin DOMAIN s THEN Saved(Put(s, k, PyList(<<value>>)), None)
    ELSE IF s[k].t # "list" THEN Kept(s, Raised("TypeError"))
    ELSE Saved(Put(s, k, PyList(<<value>> \o s[k].v)), None)

rpush_body(s, k, value) ==
    IF k \notin DOMAIN s THEN Saved(Put(s, k, PyList(<<value>>)), None)
    ELSE IF s[k].t # "list" THEN Kept(s, Raised("TypeError"))
    ELSE Saved(Put(s, k, PyList(Append(s[k].v, value))), None)

lpop_body(s, k) ==
    IF k \in DOMAIN s /\ s[k].t = "list" /\ s[k].v # <<>>
    THEN Saved(Put(s, k, PyList(Tail(s[k].v))), Head(s[k].v))
    ELSE Kept(s, None)

rpop_body(s, k) ==
    IF k \in DOMAIN s /\ s[k].t = "list" /\ s[k].v # <<>>
    THEN Saved(Put(s, k, PyList(SubSeq(s[k].v, 1, Len(s[k].v) - 1))), s[k].v[Len(s[k].v)])
    ELSE Kept(s, None)

expire_body(s, t, k, ttl) ==
    IF k \notin DOMAIN s THEN Kept(s, None)
    ELSE IF HasExpiry(s[k])
    THEN Saved(Put(s, k, PyDict(Put(s[k].v, EXPIRES_AT, PyInt(t + ttl)))), None)
    ELSE Saved(Put(s, k, PyDict(Wrapped(s[k], t + ttl))), None)

incrby_body(s, k, increment) ==
    LET s0 == IF k \in DOMAIN s THEN s ELSE Put(s, k, PyInt(0))
    IN  IF s0[k].t # "int" THEN Kept(s0, Raised("TypeError"))
        ELSE Saved(Put(s0, k, PyInt(s0[k].v + increment)), PyInt(s0[k].v + increment))

decrby_body(s, k, decrement) == incrby_body(s, k, -decrement)

\* rename that copies the value and leaves the old key
rename_body_copy(s, old_key, new_key) ==
    IF old_key \in DOMAIN s
    THEN Saved(Put(s, new_key, s[old_key]), None)
    ELSE Kept(s, Raised("KeyError"))

rename_body(s, old_key, new_key) ==
    IF old_key \in DOMAIN s
    THEN Saved(Put(Del(s, old_key), new_key, s[old_key]), None)
    ELSE Kept(s, Raised("KeyError"))

append_body(s, k, value) ==
    IF k \notin DOMAIN s THEN Saved(Put(s, k, value), None)
    ELSE IF s[k].t # "str" \/ value.t # "str" THEN Kept(s, Raised("TypeError"))
    ELSE Saved(Put(s, k, PyStr(s[k].v \o value.v)), None)

\* zadd that appends and does not sort
zadd_body_unsorted(s, k, score, value) ==
    LET pair == PyTuple(<<PyInt(score), value>>)
    IN  IF k \notin DOMAIN s THEN {Saved(Put(s, k, PyList(<<pair>>)), None)}
        ELSE IF s[k].t # "list" THEN {Kept(s, Raised("AttributeError"))}
        ELSE {Saved(Put(s, k, PyList(Append(s[k].v, pair))), None)}

\* zadd: the outcomes; a sort that raises leaves the appended list in some order
zadd_body(s, k, score, value) ==
    LET pair == PyTuple(<<PyInt(score), value>>)
    IN  IF k \notin DOMAIN s THEN {Saved(Put(s, k, PyList(<<pair>>)), None)}
        ELSE IF s[k].t # "list" THEN {Kept(s, Raised("AttributeError"))}
        ELSE LET q == Append(s[k].v, pair)
             IN  IF SortRaises(q)
                 THEN {Kept(Put(s, k, PyList(r)), Raised("TypeError")) : r \in Permuted(q)}
                 ELSE {Saved(Put(s, k, PyList(Sorted(q))), None)}

---------------------------------------------------------------------------
\* The methods that only read: what each returns or raises.

TypeName(n) == [t |-> "typename", v |-> n]

\* q[i] for a Python index i (negative: from the end); None stands for IndexError
Index(q, i) ==
    LET j == IF i < 0 THEN i + Len(q) ELSE i
    IN  IF j >= 0 /\ j < Len(q) THEN q[j + 1] ELSE None

\* a slice bound of a sequence of length n
Clamp(i, n) ==
    LET j == IF i < 0 THEN i + n ELSE i
    IN  IF j < 0 THEN 0 ELSE IF j > n THEN n ELSE j

\* q[start:stop]
Slice(q, start, stop) == SubSeq(q, Clamp(start, Len(q)) + 1, Clamp(stop, Len(q)))

exists_ret(s, k) == PyBool(k \in DOMAIN s)

type_ret(s, k) ==
    IF k \notin DOMAIN s THEN TypeName("none")
    ELSE CASE s[k].t = "str" -> TypeName("string")
           [] s[k].t = "list" -> TypeName("list")
           [] s[k].t = "set" -> TypeName("set")
           [] s[k].t = "dict" -> TypeName("hash")
           [] s[k].t = "int" -> TypeName("integer")
           [] OTHER -> TypeName("unknown")

llen_ret(s, k) == IF k \in DOMAIN s /\ s[k].t = "list" THEN PyInt(Len(s[k].v)) ELSE PyInt(0)

lindex_ret(s, k, index) == IF k \in DOMAIN s /\ s[k].t = "list" THEN Index(s[k].v, index) ELSE None

lrange_ret(s, k, start, end) ==
    IF k \in DOMAIN s /\ s[k].t = "list" THEN PyList(Slice(s[k].v, start, end + 1)) ELSE PyList(<<>>)

smembers_ret(s, k) == IF k \in DOMAIN s THEN s[k] ELSE PySet({})

scard_ret(s, k) == IF k \in DOMAIN s /\ s[k].t = "set" THEN PyInt(Cardinality(s[k].v)) ELSE PyInt(0)

hget_ret(s, k, field) ==
    IF k \notin DOMAIN s THEN None
    ELSE IF InRaises(PyStr(field), s[k]) THEN Raised("TypeError")
    ELSE IF ~In(PyStr(field), s[k]) THEN None
    ELSE IF s[k].t # "dict" THEN Raised("TypeError")
    ELSE s[k].v[field]

hlen_ret(s, k) == IF k \in DOMAIN s /\ s[k].t = "dict" THEN PyInt(Cardinality(DOMAIN s[k].v)) ELSE PyInt(0)

\* "for score, val in ...": the element unpacks into two
Unpacks(e) == e.t \in {"tuple", "list", "str"} /\ Len(e.v) = 2
\* the exception of an element that does not
UnpackError(e) == IF e.t = "int" THEN Raised("TypeError") ELSE Raised("ValueError")
\* the first and second of an element that unpacks
First(e) == IF e.t = "str" THEN PyStr(<<e.v[1]>>) ELSE e.v[1]
Second(e) == IF e.t = "str" THEN PyStr(<<e.v[2]>>) ELSE e.v[2]

zrange_ret(s, k, start, end) ==
    IF k \in DOMAIN s /\ s[k].t = "list"
    THEN LET q == Slice(s[k].v, start, end + 1)
             Bad == {i \in DOMAIN q : ~Unpacks(q[i])}
         IN  IF Bad # {} THEN UnpackError(q[CHOOSE i \in Bad : \A j \in Bad : i <= j])
             ELSE PyList([i \in DOMAIN q |-> Second(q[i])])
    ELSE PyList(<<>>)

zscore_ret(s, k, value) ==
    IF k \in DOMAIN s /\ s[k].t = "list"
    THEN LET q == s[k].v
             \* the places where the loop stops: a match, or an element that does not unpack
             Stop == {i \in DOMAIN q : ~Unpacks(q[i]) \/ Second(q[i]) = value}
         IN  IF Stop = {} THEN None
             ELSE LET i == CHOOSE j \in Stop : \A m \in Stop : j <= m
                  IN  IF Unpacks(q[i]) THEN First(q[i]) ELSE UnpackError(q[i])
    ELSE None

---------------------------------------------------------------------------
\* The calls of a single caller.

Threads == {"t1", "t2"}
Nobody == "nobody"

Init ==
    /\ storage = [k \in {} |-> None]
    /\ file = FileMissing
    /\ now = 0
    /\ op = [name |-> "init", key |-> "", res |-> None]
    /\ pc = [t \in Threads |-> "idle"]
    /\ lock = [owner |-> Nobody, depth |-> 0]
    /\ tmp = [t \in Threads |-> None]
    /\ exc = [t \in Threads |-> None]
    /\ ret = [t \in Threads |-> <<>>]
    /\ before = [k \in {} |-> None]
    /\ good = FileMissing

\* a call: the method's effect on the store, then _save_storage if it is reached
\* (the single caller's file system completes every write it is given)
Apply(name, k, out) ==
    /\ storage' = out.st
    /\ IF out.save
       THEN LET w == save_storage(out.st, "ok")
            IN  /\ file' = w.file
                /\ op' = [name |-> name, key |-> k, res |-> IF IsRaised(w.exc) THEN w.exc ELSE out.res]
       ELSE /\ file' = file
            /\ op' = [name |-> name, key |-> k, res |-> out.res]
    /\ UNCHANGED <<now, threadVars>>

\* the calls explored: those that leave a store within the bounds
Call(name, k, out) == Bounded(out.st) /\ Apply(name, k, out)

\* a call of a method that only reads
Read(name, k, res) == op' = [name |-> name, key |-> k, res |-> res] /\ UNCHANGED <<storage, file, now, threadVars>>

\* JSONStorage(filename) is constructed anew on the file (a restart) and takes
\* the place of the object in use; when the load raises no object is built and
\* the one in use stays
init(loaded) ==
    /\ storage' = IF IsRaised(loaded.exc) THEN storage ELSE loaded.st
    /\ op' = [name |-> "init", key |-> "", res |-> loaded.exc]
    /\ UNCHANGED <<file, now, threadVars>>

\* time passes
Tick ==
    /\ now < MaxTime
    /\ now' = now + 1
    /\ op' = [name |-> "tick", key |-> "", res |-> None]
    /\ UNCHANGED <<storage, file, threadVars>>

set(k, value) == Call("set", k, set_body(storage, k, value))
setex(k, ttl, value) == Call("setex", k, setex_body(storage, now, k, ttl, value))
get(k) == Call("get", k, get_body(storage, now, k))
delete(k) == Call("delete", k, delete_body(storage, k))
sadd(k, value) == Call("sadd", k, sadd_body(storage, k, value))
srem(k, value) == Call("srem", k, srem_body(storage, k, value))
hset(k, field, value) == Call("hset", k, hset_body(storage, k, field, value))
hdel(k, field) == Call("hdel", k, hdel_body(storage, k, field))
hincrby(k, field, increment) == Call("hincrby", k, hincrby_body(storage, k, field, increment))
lpush(k, value) == Call("lpush", k, lpush_body(storage, k, value))
rpush(k, value) == Call("rpush", k, rpush_body(storage, k, value))
lpop(k) == Call("lpop", k, lpop_body(storage, k))
rpop(k) == Call("rpop", k, rpop_body(storage, k))
expire(k, ttl) == Call("expire", k, expire_body(storage, now, k, ttl))
incrby(k, increment) == Call("incrby", k, incrby_body(storage, k, increment))
decrby(k, decrement) == Call("decrby", k, decrby_body(storage, k, decrement))
rename(old_key, new_key) == Call("rename", old_key, rename_body(storage, old_key, new_key))
append(k, value) == Call("append", k, append_body(storage, k, value))
exists(k) == Read("exists", k, exists_ret(storage, k))
type(k) == Read("type", k, type_ret(storage, k))
llen(k) == Read("llen", k, llen_ret(storage, k))
lindex(k, index) == Read("lindex", k, lindex_ret(storage, k, index))
lrange(k, start, end) == Read("lrange", k, lrange_ret(storage, k, start, end))
smembers(k) == Read("smembers", k, smembers_ret(storage, k))
scard(k) == Read("scard", k, scard_ret(storage, k))
hget(k, field) == Read("hget", k, hget_ret(storage, k, field))
hlen(k) == Read("hlen", k, hlen_ret(storage, k))
zrange(k, start, end) == Read("zrange", k, zrange_ret(storage, k, start, end))
zscore(k, value) == Read("zscore", k, zscore_ret(storage, k, value))
zadd(k, score, value) == \E out \in zadd_body(storage, k, score, value) : Call("zadd", k, out)

Next ==
    \/ Tick
    \/ init(load_storage(file))
    \/ \E k \in Keys, value \in Values : set(k, value)
    \/ \E k \in Keys, ttl \in Ttls, value \in Values : setex(k, ttl, value)
    \/ \E k \in Keys : get(k)
    \/ \E k \in Keys : delete(k)
    \/ \E k \in Keys, value \in Elems : sadd(k, value)
    \/ \E k \in Keys, value \in Elems : srem(k, value)
    \/ \E k \in Keys, field \in Fields, value \in Elems : hset(k, field, value)
    \/ \E k \in Keys, field \in Fields : hdel(k, field)
    \/ \E k \in Keys, field \in Fields, increment \in Increments : hincrby(k, field, increment)
    \/ \E k \in Keys, value \in Elems : lpush(k, value)
    \/ \E k \in Keys, value \in Elems : rpush(k, value)
    \/ \E k \in Keys : lpop(k)
    \/ \E k \in Keys : rpop(k)
    \/ \E k \in Keys, ttl \in Ttls : expire(k, ttl)
    \/ \E k \in Keys, increment \in Increments : incrby(k, increment)
    \/ \E k \in Keys, decrement \in Increments : decrby(k, decrement)
    \/ \E old_key \in Keys, new_key \in Keys : rename(old_key, new_key)
    \/ \E k \in Keys, value \in {PyStr(A)} : append(k, value)
    \/ \E k \in Keys, score \in Scores, value \in Members : zadd(k, score, value)
    \/ \E k \in Keys : exists(k)
    \/ \E k \in Keys : type(k)
    \/ \E k \in Keys : llen(k)
    \/ \E k \in Keys, index \in Indexes : lindex(k, index)
    \/ \E k \in Keys, start \in Starts, end \in Ends : lrange(k, start, end)
    \/ \E k \in Keys : smembers(k)
    \/ \E k \in Keys : scard(k)
    \/ \E k \in Keys, field \in Fields : hget(k, field)
    \/ \E k \in Keys : hlen(k)
    \/ \E k \in Keys, start \in Starts, end \in Ends : zrange(k, start, end)
    \/ \E k \in Keys, value \in Members : zscore(k, value)

Spec == Init /\ [][Next]_vars

---------------------------------------------------------------------------
\* The single caller again, with the calls that give and read expiries only,
\* on stores large enough for two keys that both carry an expiry.

BoundedTtl(s) ==
    /\ StoreWeight(s, DOMAIN s) <= MaxWeightTtl
    /\ \A k \in DOMAIN s : IntsWithin(s[k])

CallTtl(name, k, out) == BoundedTtl(out.st) /\ Apply(name, k, out)

NextTtl ==
    \/ Tick
    \/ \E k \in Keys, ttl \in Ttls, value \in Elems :
         CallTtl("setex", k, setex_body(storage, now, k, ttl, value))
    \/ \E k \in Keys : CallTtl("get", k, get_body(storage, now, k))
    \/ \E k \in Keys : CallTtl("delete", k, delete_body(storage, k))
    \/ \E k \in Keys, value \in Elems : CallTtl("sadd", k, sadd_body(storage, k, value))
    \/ \E k \in Keys, ttl \in Ttls : CallTtl("expire", k, expire_body(storage, now, k, ttl))
    \/ \E k \in Keys : exists(k)

SpecTtl == Init /\ [][NextTtl]_vars

---------------------------------------------------------------------------
\* Properties of the calls of a single caller.

\* the store holds a value that json.dump cannot write
Unwritable(s) == \E k \in DOMAIN s : ~Serializable(Listed(s)[k])

\* a value with a TTL, as get reads it: {'value': ..., 'expires_at': <number>}
Timed(x) == HasExpiry(x) /\ x.v[EXPIRES_AT].t = "int" /\ VALUE \in DOMAIN x.v

MutatingCalls == {"set", "setex", "delete", "rename", "append", "incrby", "decrby", "expire",
                  "sadd", "srem", "hset", "hdel", "hincrby", "lpush", "rpush", "lpop", "rpop",
                  "zadd", "get"}
\* the calls that persist whenever they return
AlwaysPersist == {"set", "setex", "rename", "append", "incrby", "decrby", "sadd", "hset",
                  "hincrby", "lpush", "rpush", "zadd"}

\* C1: after a mutating call that returns without raising (any return of a
\* call that always persists; a return that changed the store for delete,
\* srem, hdel, lpop, rpop, expire and an expiring get), the snapshot file is
\* the serialization of the store in memory.
C1_SnapshotMatchesStore ==
    [][(/\ op'.name \in MutatingCalls
        /\ ~IsRaised(op'.res)
        /\ (op'.name \in AlwaysPersist \/ storage' # storage))
       => file' = Snapshot(storage')]_vars

\* C1 witness: a zadd has returned, its list holds two pairs in order, and
\* the file is the serialization of the store
C1_Witness ==
    /\ op.name = "zadd" /\ ~IsRaised(op.res)
    /\ op.key \in DOMAIN storage
    /\ storage[op.key].t = "list" /\ Len(storage[op.key].v) = 2
    /\ file = Snapshot(storage)

\* C5 (as claimed): a call of append, incrby, sadd, srem, hset, hdel,
\* hincrby, lpush, rpush or zadd that raises because of the value at the key
\* (it raises, and not in writing the snapshot) leaves the store and the
\* file as they were.
C5_RaisedCallChangesNothing ==
    [][(/\ op'.name \in {"append", "incrby", "sadd", "srem", "hset", "hdel", "hincrby",
                         "lpush", "rpush", "zadd"}
        /\ IsRaised(op'.res)
        /\ ~Unwritable(storage'))
       => (storage' = storage /\ file' = file)]_vars

\* a pair, as zadd stores it and as a reload returns it
IsPair(e) == e.t \in {"tuple", "list"} /\ Len(e.v) = 2
\* a list that holds pairs only, and a list that holds something else
IsScored(x) == x.t = "list" /\ x.v # <<>> /\ \A i \in DOMAIN x.v : IsPair(x.v[i])
IsPlain(x) == x.t = "list" /\ \E i \in DOMAIN x.v : ~IsPair(x.v[i])
\* the variant of a stored value, under its TTL if it has one
VariantOf(x) ==
    LET y == IF Timed(x) THEN x.v[VALUE] ELSE x
    IN  CASE y.t \in {"int", "str"} -> "scalar"
          [] y.t = "set" -> "set"
          [] y.t = "dict" -> "hash"
          [] IsScored(y) -> "sortedlist"
          [] IsPlain(y) -> "list"
          [] OTHER -> "empty list"
\* the call is not defined for the value x
OtherVariant(name, x) ==
    CASE name \in {"sadd", "srem"} -> x.t # "set"
      [] name \in {"lpush", "rpush"} -> x.t # "list" \/ IsScored(x)
      [] name \in {"hset", "hdel"} -> x.t # "dict"
      [] name = "zadd" -> x.t # "list" \/ IsPlain(x)
      [] OTHER -> FALSE

\* C6 (as claimed): sadd, srem, lpush, rpush, hset, hdel and zadd on a key
\* that holds another variant raise and change nothing, and the variant at a
\* key changes only through set, setex, delete or rename.
C6_VariantEnforced ==
    [][/\ (op'.key \in DOMAIN storage /\ OtherVariant(op'.name, storage[op'.key]))
          => (IsRaised(op'.res) /\ storage' = storage)
       /\ \A k \in DOMAIN storage \cap DOMAIN storage' :
            (/\ op'.name \notin {"set", "setex", "delete", "rename", "init"}
             /\ "empty list" \notin {VariantOf(storage[k]), VariantOf(storage'[k])})
            => VariantOf(storage'[k]) = VariantOf(storage[k])]_vars

\* C7 (as claimed): get of a key stored with the expiry T returns None when
\* now >= T and the stored value when now < T.
C7_PresentStrictlyBefore ==
    [][(op'.name = "get" /\ op'.key \in DOMAIN storage /\ Timed(storage[op'.key]))
       => op'.res = IF now >= storage[op'.key].v[EXPIRES_AT].v
                    THEN None
                    ELSE storage[op'.key].v[VALUE]]_vars

\* C8 (as claimed): time passing removes nothing; a key leaves the store only
\* by get, delete, rename or a restart; the get of a key whose expiry has
\* passed returns None and removes the key from the store and the snapshot;
\* a key comes back only by a call that writes it.
C8_LazyExpiry ==
    [][/\ op'.name = "tick" => (storage' = storage /\ file' = file)
       /\ \A k \in DOMAIN storage \ DOMAIN storage' :
            op'.name \in {"get", "delete", "rename", "init"}
       /\ (/\ op'.name = "get" /\ op'.key \in DOMAIN storage
           /\ Timed(storage[op'.key])
           /\ now > storage[op'.key].v[EXPIRES_AT].v)
          => (/\ op'.res = None
              /\ op'.key \notin DOMAIN storage'
              /\ file' = Snapshot(storage'))
       /\ \A k \in DOMAIN storage' \ DOMAIN storage :
            op'.name \in (MutatingCalls \cup {"init"}) \ {"get", "delete"}]_vars

\* C9 (as claimed): get(k) right after set(k, v) returns v and leaves the
\* store as it is.
C9_GetAfterSet ==
    [][(op.name = "set" /\ op'.name = "get" /\ op'.key = op.key)
       => (op'.res = storage[op.key] /\ storage' = storage)]_vars

\* what the reads of key k return
Observed(s, t, k) ==
    <<get_body(s, t, k).res, type_ret(s, k), llen_ret(s, k),
      [i \in Indexes |-> lindex_ret(s, k, i)],
      [b \in Starts \X Ends |-> lrange_ret(s, k, b[1], b[2])],
      smembers_ret(s, k), scard_ret(s, k),
      [f \in Fields |-> hget_ret(s, k, f)], hlen_ret(s, k),
      [b \in Starts \X Ends |-> zrange_ret(s, k, b[1], b[2])],
      [m \in Members |-> zscore_ret(s, k, m)]>>

\* C10 (as claimed): expire(k, ttl) leaves what every read of k returns,
\* leaves every other key as it is, and on an absent key changes neither the
\* store nor the snapshot.
C10_ExpireKeepsReads ==
    [][op'.name = "expire"
       => /\ op'.key \in DOMAIN storage
               => Observed(storage', now, op'.key) = Observed(storage, now, op'.key)
          /\ \A j \in Keys \ {op'.key} :
               /\ j \in DOMAIN storage <=> j \in DOMAIN storage'
               /\ j \in DOMAIN storage => storage'[j] = storage[j]
          /\ op'.key \notin DOMAIN storage => (storage' = storage /\ file' = file)]_vars

\* C11 (as claimed): setex with a value of any variant, and expire on an
\* existing key of any variant, return without raising and leave the
\* snapshot holding, for the key, an object with the entries 'value' and
\* 'expires_at'.
C11_AnyVariantCarriesExpiry ==
    [][(op'.name = "setex" \/ (op'.name = "expire" /\ op'.key \in DOMAIN storage))
       => /\ ~IsRaised(op'.res)
          /\ file'.t = "json"
          /\ op'.key \in DOMAIN file'.v
          /\ file'.v[op'.key].t = "object"
          /\ {VALUE, EXPIRES_AT} \subseteq DOMAIN file'.v[op'.key].v]_vars

\* q[start..end], both ends included, a negative index counted from the tail
Inclusive(q, start, end) ==
    LET a == IF start < 0 THEN start + Len(q) ELSE start
        b == IF end < 0 THEN end + Len(q) ELSE end
    IN  SubSeq(q, (IF a < 0 THEN 0 ELSE a) + 1, (IF b >= Len(q) THEN Len(q) - 1 ELSE b) + 1)

\* C12 (as claimed): on a key that holds a list, lrange(k, start, end)
\* returns the elements from start through end inclusive, a negative index
\* counted from the tail, so lrange(k, 0, -1) returns the whole list in
\* head-to-tail order.
C12_RangeInclusive ==
    \A k \in DOMAIN storage :
        (storage[k].t = "list" /\ ~IsScored(storage[k]))
        => /\ lrange_ret(storage, k, 0, -1) = storage[k]
           /\ \A start \in Starts, end \in Ends :
                lrange_ret(storage, k, start, end) = PyList(Inclusive(storage[k].v, start, end))

\* a list that zadd alone has filled: (score, member) tuples
ZaddMade(x) == x.t = "list" /\ x.v # <<>> /\ \A i \in DOMAIN x.v : x.v[i].t = "tuple"
\* the members of a sequence of pairs, in its order
MembersOf(q) == PyList([i \in DOMAIN q |-> q[i].v[2]])

\* C13 (as claimed): on a key that zadd calls have filled, zrange(k, start,
\* end) returns the members from start through end inclusive in ascending
\* order of score, so zrange(k, 0, -1) returns every member added.
C13_ScoredRangeInclusive ==
    \A k \in DOMAIN storage :
        ZaddMade(storage[k])
        => LET q == storage[k].v
           IN  /\ \A i, j \in DOMAIN q : i < j => q[i].v[1].v <= q[j].v[1].v
               /\ zrange_ret(storage, k, 0, -1) = MembersOf(q)
               /\ \A start \in Starts, end \in Ends :
                    zrange_ret(storage, k, start, end) = MembersOf(Inclusive(q, start, end))

\* how often e occurs in q
Count(q, e) == Cardinality({i \in DOMAIN q : q[i] = e})
\* (score, member) order: by score, then by member
PairLeq(p, r) ==
    \/ p.v[1].v < r.v[1].v
    \/ p.v[1].v = r.v[1].v /\ (p.v[2] = r.v[2] \/ StrLess(p.v[2].v, r.v[2].v))
\* the scores of the entries of member m
ScoresOf(q, m) == {q[i].v[1].v : i \in {j \in DOMAIN q : q[j].v[2] = m}}
\* the list at k before a call, empty if the key is absent
ListAt(s, k) == IF k \in DOMAIN s THEN s[k].v ELSE <<>>

\* C14: a zadd on a key that is absent or that zadd calls alone have filled
\* leaves a list of tuples sorted by (score, member) that holds the entries
\* it held and one more, also when the member was already there; zscore then
\* returns the lowest score among the entries of a member, None if it has
\* none.
C14_ScoredAddSortsAndKeeps ==
    [][(op'.name = "zadd" /\ (op'.key \notin DOMAIN storage \/ ZaddMade(storage[op'.key])))
       => LET k == op'.key
              q == ListAt(storage, k)
              r == storage'[k].v
          IN  /\ ZaddMade(storage'[k])
              /\ \A i, j \in DOMAIN r : i < j => PairLeq(r[i], r[j])
              /\ \E score \in Scores, m \in Members :
                   LET pair == PyTuple(<<PyInt(score), m>>)
                   IN  \A e \in Range(r) \cup Range(q) \cup {pair} :
                         Count(r, e) = Count(q, e) + (IF e = pair THEN 1 ELSE 0)
              /\ \A m \in Members :
                   zscore_ret(storage', k, m) =
                     IF ScoresOf(r, m) = {} THEN None
                     ELSE PyInt(CHOOSE x \in ScoresOf(r, m) : \A y \in ScoresOf(r, m) : x <= y)]_vars

\* C14 witness: a zadd has added a member a second time, with another score
C14_Witness ==
    /\ op.name = "zadd" /\ ~IsRaised(op.res)
    /\ op.key \in DOMAIN storage /\ ZaddMade(storage[op.key])
    /\ \E i, j \in DOMAIN storage[op.key].v :
         /\ i < j
         /\ storage[op.key].v[i].v[2] = storage[op.key].v[j].v[2]
         /\ storage[op.key].v[i].v[1].v < storage[op.key].v[j].v[1].v

\* C15 (as claimed): type(k) returns one of string, integer, list, set, hash,
\* sortedlist and none; none for an absent key, the name of the variant for
\* a key that holds a scalar, a set or a plain list, hash for a key hset has
\* written, sortedlist for a key zadd has created, and the same name after
\* expire has given the key a TTL as before.
C15_TypeNamesVariant ==
    [][/\ \A k \in Keys :
            type_ret(storage', k) \in {TypeName(n) : n \in {"string", "integer", "list", "set",
                                                             "hash", "sortedlist", "none"}}
       /\ \A k \in Keys \ DOMAIN storage' : type_ret(storage', k) = TypeName("none")
       /\ \A k \in DOMAIN storage' :
            /\ storage'[k].t = "str" => type_ret(storage', k) = TypeName("string")
            /\ storage'[k].t = "int" => type_ret(storage', k) = TypeName("integer")
            /\ storage'[k].t = "set" => type_ret(storage', k) = TypeName("set")
            /\ IsPlain(storage'[k]) => type_ret(storage', k) = TypeName("list")
       /\ (op'.name = "hset" /\ ~IsRaised(op'.res))
          => type_ret(storage', op'.key) = TypeName("hash")
       /\ (op'.name = "zadd" /\ op'.key \notin DOMAIN storage)
          => type_ret(storage', op'.key) = TypeName("sortedlist")
       /\ (op'.name = "expire" /\ op'.key \in DOMAIN storage)
          => type_ret(storage', op'.key) = type_ret(storage, op'.key)]_vars

\* what get, smembers, hget, lrange and zrange return for key k
RoundTripReads(s, t, k) ==
    <<get_body(s, t, k).res, smembers_ret(s, k),
      [f \in Fields |-> hget_ret(s, k, f)],
      [b \in Starts \X Ends |-> lrange_ret(s, k, b[1], b[2])],
      [b \in Starts \X Ends |-> zrange_ret(s, k, b[1], b[2])]>>

\* C16 (as claimed): a JSONStorage constructed on the file loads it without
\* raising, and get, smembers, hget, lrange and zrange return for every key
\* what they returned before, except for a key that held a list of scalars
\* only (it may come back as a set); a missing file loads as the empty
\* store.
C16_SnapshotRoundTrip ==
    [][op'.name = "init"
       => /\ ~IsRaised(op'.res)
          /\ \A k \in Keys :
               \/ k \in DOMAIN storage /\ ListOfScalars(storage[k])
               \/ RoundTripReads(storage', now, k) = RoundTripReads(storage, now, k)
          /\ file = FileMissing => storage' = [k \in {} |-> None]]_vars

C18_ScoredAddAfterRestart ==
    [][(op'.name = "zadd" /\ op'.key \in DOMAIN storage /\ IsScored(storage[op'.key]))
       => LET k == op'.key
              r == storage'[k].v
          IN  /\ ~IsRaised(op'.res)
              /\ IsScored(storage'[k])
              /\ Len(r) = Len(storage[k].v) + 1
              /\ \A i, j \in DOMAIN r : i < j => PairLeq(r[i], r[j])
              /\ zrange_ret(storage', k, 0, Len(r) - 1) = MembersOf(r)
              /\ file' = Snapshot(storage')]_vars

\* the clock has passed the expiry of the value at k
Expired(s, t, k) == k \in DOMAIN s /\ Timed(s[k]) /\ t > s[k].v[EXPIRES_AT].v
\* the calls that supply a value for their key
ValueWrites == {"set", "setex", "append", "incrby", "decrby", "sadd", "hset", "hincrby",
                "lpush", "rpush", "zadd"}

\* C19 (as claimed): once the clock has passed the expiry of key k, the key
\* stays expired or leaves the store at every step but a call that supplies
\* a value for k, expire included; get(k) does not return the value; and
\* after a rename every value with a TTL that can be read is a value that
\* could be read before.
C19_ExpiredStaysExpired ==
    [][/\ \A k \in Keys :
            (/\ Expired(storage, now, k)
             /\ ~(op'.name \in ValueWrites /\ op'.key = k)
             /\ op'.name # "rename")
            => (k \notin DOMAIN storage' \/ Expired(storage', now', k))
       /\ (op'.name = "get" /\ Expired(storage, now, op'.key))
          => op'.res # storage[op'.key].v[VALUE]
       /\ op'.name = "rename"
          => \A j \in DOMAIN storage' :
               (Timed(storage'[j]) /\ ~Expired(storage', now', j))
               => \E i \in DOMAIN storage :
                    storage[i] = storage'[j] /\ ~Expired(storage, now, i)]_vars

---------------------------------------------------------------------------
\* Threads that call incrby(TKey, 1) on one JSONStorage, a statement at a
\* time, on a file system whose writes can fail, in a process that can die.

TKey == "a"
seqVars == <<now, op>>

\* a lock that excludes nobody
CanAcquireAlways(t) == TRUE

\* "with self.lock" can enter: the RLock is free, or held by the thread itself
CanAcquire(t) == lock.owner \in {Nobody, t}
Acquired(t) == [owner |-> t, depth |-> lock.depth + 1]
\* a with that does not give the lock back
ReleasedLeaky == lock

\* leaving "with self.lock"
Released == IF lock.depth = 1 THEN [owner |-> Nobody, depth |-> 0]
            ELSE [owner |-> lock.owner, depth |-> lock.depth - 1]

At(t, line) == pc[t] = line
Goto(t, line) == pc' = [pc EXCEPT ![t] = line]

\* a thread calls incrby
t_call(t) ==
    /\ At(t, "idle") /\ Len(ret[t]) < MaxCalls
    /\ Goto(t, "164")
    /\ UNCHANGED <<storage, file, lock, tmp, exc, ret, before, good, seqVars>>

\* 164: with self.lock
t_lock(t) ==
    /\ At(t, "164") /\ CanAcquire(t)
    /\ lock' = Acquired(t)
    /\ before' = storage
    /\ Goto(t, "165")
    /\ UNCHANGED <<storage, file, tmp, exc, ret, good, seqVars>>

\* 165-166: if key not in self.storage: self.storage[key] = 0
t_create(t) ==
    /\ At(t, "165")
    /\ storage' = IF TKey \in DOMAIN storage THEN storage ELSE Put(storage, TKey, PyInt(0))
    /\ Goto(t, "167")
    /\ UNCHANGED <<file, lock, tmp, exc, ret, before, good, seqVars>>

\* 167-168: if not isinstance(self.storage[key], int): raise TypeError
t_check(t) ==
    /\ At(t, "167")
    /\ IF storage[TKey].t = "int"
       THEN Goto(t, "169") /\ exc' = exc
       ELSE Goto(t, "exit") /\ exc' = [exc EXCEPT ![t] = Raised("TypeError")]
    /\ UNCHANGED <<storage, file, lock, tmp, ret, before, good, seqVars>>

\* 169: self.storage[key] += increment, the read
t_read(t) ==
    /\ At(t, "169")
    /\ tmp' = [tmp EXCEPT ![t] = storage[TKey]]
    /\ Goto(t, "169w")
    /\ UNCHANGED <<storage, file, lock, exc, ret, before, good, seqVars>>

\* 169: self.storage[key] += increment, the write
t_write(t) ==
    /\ At(t, "169w")
    /\ storage' = Put(storage, TKey, PyInt(tmp[t].v + 1))
    /\ Goto(t, "25")
    /\ UNCHANGED <<file, lock, tmp, exc, ret, before, good, seqVars>>

\* 25: with self.lock, in _save_storage
t_save_lock(t) ==
    /\ At(t, "25") /\ CanAcquire(t)
    /\ lock' = Acquired(t)
    /\ Goto(t, "26")
    /\ UNCHANGED <<storage, file, tmp, exc, ret, before, good, seqVars>>

\* 26: open(self.filename, 'w') truncates the file
t_open(t) ==
    /\ At(t, "26")
    /\ file' = FileTruncated
    /\ Goto(t, "27")
    /\ UNCHANGED <<storage, lock, tmp, exc, ret, before, good, seqVars>>

\* 27: json.dump(..., file), and the file is closed
t_dump(t) ==
    /\ At(t, "27")
    /\ \E io \in IoOutcomes :
         LET w == save_storage(storage, io)
         IN  /\ file' = w.file
             /\ exc' = [exc EXCEPT ![t] = w.exc]
             /\ good' = IF IsRaised(w.exc) THEN good ELSE w.file
    /\ Goto(t, "exit25")
    /\ UNCHANGED <<storage, lock, tmp, ret, before, seqVars>>

\* leaving the with of _save_storage, with or without an exception
t_save_unlock(t) ==
    /\ At(t, "exit25")
    /\ lock' = Released
    /\ Goto(t, IF IsRaised(exc[t]) THEN "exit" ELSE "171")
    /\ UNCHANGED <<storage, file, tmp, exc, ret, before, good, seqVars>>

\* 171: return self.storage[key]
t_return(t) ==
    /\ At(t, "171")
    /\ tmp' = [tmp EXCEPT ![t] = storage[TKey]]
    /\ Goto(t, "exit")
    /\ UNCHANGED <<storage, file, lock, exc, ret, before, good, seqVars>>

\* leaving the with of incrby: the call returns its value or raises
t_unlock(t) ==
    /\ At(t, "exit")
    /\ lock' = Released
    /\ ret' = [ret EXCEPT ![t] = Append(@, IF IsRaised(exc[t]) THEN exc[t] ELSE tmp[t])]
    /\ exc' = [exc EXCEPT ![t] = None]
    /\ Goto(t, "idle")
    /\ UNCHANGED <<storage, file, tmp, before, good, seqVars>>

\* the process dies: its threads stop where they are, the file stays as it is
Crash ==
    /\ \E t \in Threads : pc[t] # "dead"
    /\ pc' = [t \in Threads |-> "dead"]
    /\ UNCHANGED <<storage, file, lock, tmp, exc, ret, before, good, seqVars>>

NextThreads ==
    \/ \E t \in Threads : t_call(t)
    \/ \E t \in Threads : t_lock(t)
    \/ \E t \in Threads : t_create(t)
    \/ \E t \in Threads : t_check(t)
    \/ \E t \in Threads : t_read(t)
    \/ \E t \in Threads : t_write(t)
    \/ \E t \in Threads : t_save_lock(t)
    \/ \E t \in Threads : t_open(t)
    \/ \E t \in Threads : t_dump(t)
    \/ \E t \in Threads : t_save_unlock(t)
    \/ \E t \in Threads : t_return(t)
    \/ \E t \in Threads : t_unlock(t)
    \/ Crash

SpecThreads == Init /\ [][NextThreads]_vars

---------------------------------------------------------------------------
\* Properties of the threads.

\* every thread has made its calls and is back from the last
Finished == \A t \in Threads : pc[t] = "idle" /\ Len(ret[t]) = MaxCalls
Returns == {<<t, i>> : t \in Threads, i \in 1..MaxCalls}
Made == {c \in Returns : c[2] <= Len(ret[c[1]])}
Outcome(c) == ret[c[1]][c[2]]

\* C2 (as claimed): at every instant the file holds the whole snapshot of the
\* store before the running call or of the store after it (or does not
\* exist yet).
C2_SnapshotAtomic == file \in {FileMissing, Snapshot(before), Snapshot(storage)}

\* C3 (as claimed): while the error of a failed write propagates to the
\* caller, the store keeps the increment and the file holds the last
\* snapshot that was written whole.
C3_FailedWriteKeepsSnapshot ==
    \A t \in Threads :
        exc[t] = Raised("OSError")
        => (storage[TKey] = PyInt(tmp[t].v + 1) /\ file = good)

\* C4: no two calls return the same value, and once every thread has made
\* its calls and none raised, the N calls have left TKey = N, have returned
\* 1..N, and the file is the snapshot of the store.
C4_IncrbySerialized ==
    /\ \A c, d \in Made : (c # d /\ ~IsRaised(Outcome(c))) => Outcome(c) # Outcome(d)
    /\ (Finished /\ \A c \in Made : ~IsRaised(Outcome(c)))
       => LET N == Cardinality(Threads) * MaxCalls
          IN  /\ storage[TKey] = PyInt(N)
              /\ {Outcome(c) : c \in Made} = {PyInt(i) : i \in 1..N}
              /\ file = Snapshot(storage)

\* C4 witness: both threads are back and no call raised
C4_Witness ==
    /\ Finished
    /\ \A c \in Made : ~IsRaised(Outcome(c))
    /\ storage[TKey] = PyInt(Cardinality(Threads) * MaxCalls)

---------------------------------------------------------------------------
\* Threads that call incrby(TKey, 1), sadd(TKey, 1) and rename(TKey, OtherKey)
\* on one JSONStorage, under a scheduler that lets every thread that can take
\* a step take one. The process does not die here.

OtherKey == "b"

\* a thread calls sadd
t_sadd_call(t) ==
    /\ At(t, "idle") /\ Len(ret[t]) < MaxCalls
    /\ Goto(t, "57")
    /\ UNCHANGED <<storage, file, lock, tmp, exc, ret, before, good, seqVars>>

\* 57: with self.lock
t_sadd_lock(t) ==
    /\ At(t, "57") /\ CanAcquire(t)
    /\ lock' = Acquired(t)
    /\ before' = storage
    /\ Goto(t, "58")
    /\ UNCHANGED <<storage, file, tmp, exc, ret, good, seqVars>>

\* 58-62: the set is created, or TypeError is raised, or the value is added
t_sadd_add(t) ==
    /\ At(t, "58")
    /\ LET out == sadd_body(storage, TKey, PyInt(1))
       IN  /\ storage' = out.st
           /\ exc' = [exc EXCEPT ![t] = IF IsRaised(out.res) THEN out.res ELSE None]
           /\ Goto(t, IF out.save THEN "save" ELSE "exit")
    /\ tmp' = [tmp EXCEPT ![t] = None]
    /\ UNCHANGED <<file, lock, ret, before, good, seqVars>>

\* a thread calls rename
t_rename_call(t) ==
    /\ At(t, "idle") /\ Len(ret[t]) < MaxCalls
    /\ Goto(t, "181")
    /\ UNCHANGED <<storage, file, lock, tmp, exc, ret, before, good, seqVars>>

\* 181: with self.lock
t_rename_lock(t) ==
    /\ At(t, "181") /\ CanAcquire(t)
    /\ lock' = Acquired(t)
    /\ before' = storage
    /\ Goto(t, "182")
    /\ UNCHANGED <<storage, file, tmp, exc, ret, good, seqVars>>

\* 182-186: the value is moved, or KeyError is raised
t_rename_move(t) ==
    /\ At(t, "182")
    /\ LET out == rename_body(storage, TKey, OtherKey)
       IN  /\ storage' = out.st
           /\ exc' = [exc EXCEPT ![t] = IF IsRaised(out.res) THEN out.res ELSE None]
           /\ Goto(t, IF out.save THEN "save" ELSE "exit")
    /\ tmp' = [tmp EXCEPT ![t] = None]
    /\ UNCHANGED <<file, lock, ret, before, good, seqVars>>

\* 63, 184: self._save_storage(), whole: its with enters the lock the thread
\* holds, the file is written or the write raises, and its with leaves
t_save(t) ==
    /\ At(t, "save") /\ CanAcquire(t)
    /\ \E io \in IoOutcomes :
         LET w == save_storage(storage, io)
         IN  /\ file' = w.file
             /\ exc' = [exc EXCEPT ![t] = w.exc]
             /\ good' = IF IsRaised(w.exc) THEN good ELSE w.file
    /\ Goto(t, "exit")
    /\ UNCHANGED <<storage, lock, tmp, ret, before, seqVars>>

\* the steps of thread t inside a call
Step(t) ==
    \/ t_lock(t) \/ t_create(t) \/ t_check(t) \/ t_read(t) \/ t_write(t)
    \/ t_save_lock(t) \/ t_open(t) \/ t_dump(t) \/ t_save_unlock(t) \/ t_return(t)
    \/ t_sadd_lock(t) \/ t_sadd_add(t) \/ t_rename_lock(t) \/ t_rename_move(t)
    \/ t_save(t) \/ t_unlock(t)

NextLock ==
    \/ \E t \in Threads : t_call(t)
    \/ \E t \in Threads : t_sadd_call(t)
    \/ \E t \in Threads : t_rename_call(t)
    \/ \E t \in Threads : t_lock(t)
    \/ \E t \in Threads : t_create(t)
    \/ \E t \in Threads : t_check(t)
    \/ \E t \in Threads : t_read(t)
    \/ \E t \in Threads : t_write(t)
    \/ \E t \in Threads : t_save_lock(t)
    \/ \E t \in Threads : t_open(t)
    \/ \E t \in Threads : t_dump(t)
    \/ \E t \in Threads : t_save_unlock(t)
    \/ \E t \in Threads : t_return(t)
    \/ \E t \in Threads : t_sadd_lock(t)
    \/ \E t \in Threads : t_sadd_add(t)
    \/ \E t \in Threads : t_rename_lock(t)
    \/ \E t \in Threads : t_rename_move(t)
    \/ \E t \in Threads : t_save(t)
    \/ \E t \in Threads : t_unlock(t)

SpecLock == Init /\ [][NextLock]_vars /\ \A t \in Threads : WF_vars(Step(t))

\* where a thread is outside every with, and where it waits for the lock
Outside == {"idle", "164", "57", "181"}
Waiting == {"164", "57", "181"}
\* where a thread is inside the with of _save_storage
Nested == {"26", "27", "exit25"}

\* the lock is held by the threads inside a with, as deep as their withs
LockHeldInside ==
    /\ \A t \in Threads : pc[t] \in Outside => lock.owner # t
    /\ \A t \in Threads : pc[t] \notin Outside
         => (lock.owner = t /\ lock.depth = IF pc[t] \in Nested THEN 2 ELSE 1)
    /\ (\A t \in Threads : pc[t] \in Outside) => lock = [owner |-> Nobody, depth |-> 0]
    /\ \A t \in Threads : pc[t] \in {"25", "save"} => CanAcquire(t)

\* C20: the lock is held exactly by a thread inside a call, once per with it
\* is in, so the with of _save_storage can enter on the thread that holds it
\* and the lock is free whenever no call is running, whether the calls
\* returned or raised TypeError, KeyError or OSError; and a thread that waits
\* for the lock gets it, and a thread in a call comes back from it.
C20_LockNeverLeaked ==
    /\ []LockHeldInside
    /\ \A t \in Threads : (pc[t] \in Waiting) ~> (lock.owner = t)
    /\ \A t \in Threads : (pc[t] # "idle") ~> (pc[t] = "idle")

\* C20 witness: every call is over, one raised TypeError or KeyError, one
\* raised OSError, and the lock is free
C20_Witness ==
    /\ Finished
    /\ \E c \in Made : Outcome(c) \in {Raised("TypeError"), Raised("KeyError")}
    /\ \E c \in Made : Outcome(c) = Raised("OSError")
    /\ lock = [owner |-> Nobody, depth |-> 0]
====
